---- MODULE Spec2Model ----
(***************************************************************************)
(* ASP-8 EEPROM programmers: Arduino/sevenseg/sevenseg.ino (digit-display   *)
(* ROM) and Arduino/ucode/ucode.ino (control-store ROM).                    *)
(*                                                                         *)
(* Both sketches share one shape: a pure encoder getOutputByte(address), a  *)
(* programming sweep in setup() that presents every address through a       *)
(* 16-bit shift register and pulses WE, and a read-back dumpEeprom().       *)
(* Arithmetic follows the AVR target: int and unsigned int are 16 bits,     *)
(* unsigned long is 32 bits, unsigned char is 8 bits.                       *)
(***************************************************************************)
EXTENDS Integers, Sequences, FiniteSets, TLC

VARIABLES
    variant,   \* which sketch runs: "sevenseg" or "ucode"
    U_MRO,     \* value of the macro U_MRO, used by isa but defined nowhere in ucode.ino
    U_PCI,     \* value of the macro U_PCI, used by isa but defined nowhere in ucode.ino
    pc,        \* position of the program
    i,         \* outer loop counter of setup() / loop counter of dumpEeprom()
    j,         \* inner loop counter of setup()
    address,   \* the local (or parameter) `address`
    data,      \* the local `data` (the encoder's return value)
    sr,        \* contents of the external 16-bit address shift register
    pins,      \* levels of the 8 data lines EEPROM_DATA_0 .. EEPROM_DATA_0+7
    mem,       \* contents of the EEPROM cells that are observed
    pulses,    \* number of low pulses WE has received
    cpu,       \* the ASP-8 datapath that the control store drives
    boot,      \* the datapath as it was when the instruction began
    io,        \* mode and output latch of the Arduino pins 2..13
    at,        \* position inside writeEepromAddress / writeEepromByte / a pin sequence
    serial     \* the characters Serial has written

vars == <<variant, U_MRO, U_PCI, pc, i, j, address, data, sr, pins, mem, pulses,
          cpu, boot, io, at, serial>>

----------------------------------------------------------------------------
(* Bounds of the model                                                      *)

\* undefined macros range over the bits TopBit, TopBit - UndefBitStride, ... of a control word
UndefBitStride == 16
\* the encoders are applied to every address up to their guard plus this margin ...
DenseMargin == 64
\* ... and to every SparseStep-th address of the rest of the 16-bit domain
SparseStep == 997
\* the EEPROM cells that are observed: the first DenseWatch cells, every
\* WatchStride-th cell and the first and last cell of every page
DenseWatch == 16
WatchStride == 1021

----------------------------------------------------------------------------
(* Machine arithmetic                                                       *)

IntBits == 16       \* width of int / unsigned int / unsigned short on the AVR target
LongBits == 32      \* width of unsigned long on the AVR target
CharBits == 8       \* width of unsigned char

Shl(x, n) == x * (2 ^ n)
Shr(x, n) == x \div (2 ^ n)
Bit(x, k) == (x \div (2 ^ k)) % 2

\* conversion to unsigned int / unsigned short
ToUInt(x) == x % (2 ^ IntBits)
\* conversion to int: two's complement wrap-around. avr-gcc defines a signed
\* left shift that overflows this way (it does not treat signed << as undefined)
ToInt(x) ==
    LET m == x % (2 ^ IntBits)
    IN  IF m >= 2 ^ (IntBits - 1) THEN m - 2 ^ IntBits ELSE m
\* conversion to unsigned char
ToUChar(x) == x % (2 ^ CharBits)

\* a | b
RECURSIVE BitOr(_, _)
BitOr(a, b) ==
    IF a = 0 THEN b
    ELSE IF b = 0 THEN a
    ELSE (IF a % 2 = 1 \/ b % 2 = 1 THEN 1 ELSE 0) + 2 * BitOr(a \div 2, b \div 2)

\* a | b | ... over the words of S
RECURSIVE OrAll(_)
OrAll(S) ==
    IF S = {} THEN 0
    ELSE LET w == CHOOSE x \in S : TRUE
         IN  BitOr(w, OrAll(S \ {w}))

\* a ^ b
RECURSIVE Xor(_, _)
Xor(a, b) ==
    IF a = 0 THEN b
    ELSE IF b = 0 THEN a
    ELSE (IF a % 2 # b % 2 THEN 1 ELSE 0) + 2 * Xor(a \div 2, b \div 2)

----------------------------------------------------------------------------
(* sevenseg.ino: the digit-display encoder                                  *)

digits ==
    <<136, 235, 76, 73, 43, 25, 24, 203,
      8, 9, 10, 56, 156, 104, 28, 30>>

off == 255

\* digits[k], a 16-entry C array
DigitAt(k) == digits[k + 1]

\* unsigned int digit = (address >> 12) & 3
DigitSlot(a) == Shr(a, 12) % 4

\* OctalIndex with the digit slots taken as 4-bit fields
OctalIndex_hexfields(a, d) == Shr(a, 4 * d) % 8

\* the index used by the octal branch for digit slot d
OctalIndex(a, d) == Shr(a, 3 * d) % 8

\* SignExtend over 15 bits: ((int)address << 1) >> 1
SignExtend_15(a) == ToUInt(ToInt(Shl(ToInt(a), 1)) \div 2)

\* unsigned int value = (unsigned int)(((int)address << 4) >> 4)
SignExtend(a) == ToUInt(ToInt(Shl(ToInt(a), 4)) \div 16)

\* if (value & 0x8000)
IsNegative(value) == Bit(value, 15) = 1

\* Negate without the + 1 (one's complement)
Negate_ones(value) == ToUInt(2 ^ IntBits - 1 - value)

\* value = ~value + 1
Negate(value) == ToUInt((2 ^ IntBits - 1 - value) + 1)

\* the value displayed in signed-decimal mode, after the sign has been taken off
Magnitude(a) ==
    LET value == SignExtend(a)
    IN  IF IsNegative(value) THEN Negate(value) ELSE value

\* the sign mark put on segment bit 0x80
SignMark_high(a) == IF IsNegative(SignExtend(a)) THEN 128 ELSE 0

\* the local `sign`
SignMark(a) == IF IsNegative(SignExtend(a)) THEN 8 ELSE 0

\* 10^d
Pow10(d) == 10 ^ d

\* the index used by the signed-decimal branch for digit slot d
DecimalIndex(a, d) == (Magnitude(a) \div Pow10(d)) % 10

sevenseg_getOutputByte(a) ==
    LET digit == DigitSlot(a)
    IN  IF a > 32767 THEN off
        ELSE IF a < 16384 THEN DigitAt(OctalIndex(a, digit))
        ELSE IF digit = 0 THEN Xor(DigitAt(DecimalIndex(a, 0)), SignMark(a))
        ELSE IF Magnitude(a) >= Pow10(digit) THEN DigitAt(DecimalIndex(a, digit))
        ELSE off

\* every index the evaluation applies to digits[] is one of its 16 entries
sevenseg_IndexOK(a) ==
    \/ a > 32767
    \/ a < 16384 /\ OctalIndex(a, DigitSlot(a)) \in 0..15
    \/ a >= 16384 /\ a <= 32767 /\ DecimalIndex(a, DigitSlot(a)) \in 0..15

----------------------------------------------------------------------------
(* ucode.ino: control signals                                               *)

U_ARO == 1
U_SUO == 2
U_PHO == 4
U_PLO == 8
U_IRO == 16
U_HLT == 32
U_RV0 == 64
U_RV1 == 128
U_MRI == 256
U_MEI == 512
U_MEO == 1024
U_SUB == 2048
U_OUT == 4096
U_ARI == 8192
U_BRI == 16384
U_JMP == 32768
U_JPC == 65536
U_JPN == 131072
U_FRI == 262144
U_PCE == 524288
U_IRI == 1048576
U_RV2 == 2097152
U_RV3 == 4194304
U_END == 8388608

U_PCO == OrAll({U_PHO, U_PLO})
U_ZEO == 0
U_FE0 == OrAll({U_PCO, U_MRI})
U_FE1 == OrAll({U_MEO, U_IRI, U_PCE})
U_CUP == OrAll({U_PHO, U_IRO, U_MRI})
U_ZEP == OrAll({U_IRO, U_MRI})
U_AC0 == OrAll({U_IRO, U_BRI})
U_AC1 == OrAll({U_SUO, U_MRI})

\* the values a build can give to a signal macro the source leaves undefined:
\* like every other signal, one bit of the control word
\* the highest bit of a control word the model represents
TopBit == LongBits - 2
UndefinedSignal == {2 ^ k : k \in {b \in 0..TopBit : (TopBit - b) % UndefBitStride = 0}}

\* a row initialiser with fewer than 8 words is zero-filled by the compiler
Pad8(row) == [c \in 1..8 |-> IF c <= Len(row) THEN row[c] ELSE 0]

\* isa[000] (ucode.ino lines 75-82, labelled "000: ADDc")
ADDc ==
    Pad8(<<U_FE0, U_FE1, U_CUP, OrAll({U_MEO, U_BRI}), OrAll({U_SUO, U_ARI, U_FRI}), U_END>>)

\* ADDz resolving its address in the current page
ADDz_cup ==
    Pad8(<<U_FE0, U_FE1, U_CUP, OrAll({U_MEO, U_BRI}), OrAll({U_SUO, U_ARI, U_FRI}), U_END>>)

\* isa[001] (ucode.ino lines 82-89, labelled "001: ADDz")
ADDz ==
    Pad8(<<U_FE0, U_FE1, U_ZEP, OrAll({U_MEO, U_BRI}), OrAll({U_SUO, U_ARI, U_FRI}), U_END>>)

\* isa[002] (ucode.ino lines 89-95, labelled "002: ADDi")
ADDi ==
    Pad8(<<U_FE0, U_FE1, OrAll({U_IRO, U_BRI}), OrAll({U_SUO, U_ARI, U_FRI}), U_END>>)

\* isa[003] (ucode.ino lines 95-103, labelled "003: ADDa")
ADDa ==
    Pad8(<<U_FE0, U_FE1, U_AC0, U_AC1, OrAll({U_MEO, U_BRI}), OrAll({U_SUO, U_ARI, U_FRI}), U_END>>)

\* isa[004] (ucode.ino lines 103-110, labelled "004: SUBc")
SUBc ==
    Pad8(<<U_FE0, U_FE1, U_CUP, OrAll({U_MEO, U_BRI}), OrAll({U_SUO, U_SUB, U_ARI, U_FRI}), U_END>>)

\* isa[005] (ucode.ino lines 110-117, labelled "005: SUBz")
SUBz ==
    Pad8(<<U_FE0, U_FE1, U_ZEP, OrAll({U_MEO, U_BRI}), OrAll({U_SUO, U_SUB, U_ARI, U_FRI}), U_END>>)

\* isa[006] (ucode.ino lines 117-123, labelled "006: SUBi")
SUBi ==
    Pad8(<<U_FE0, U_FE1, OrAll({U_IRO, U_BRI}), OrAll({U_SUO, U_SUB, U_ARI, U_FRI}), U_END>>)

\* isa[007] (ucode.ino lines 123-132, labelled "007: SUBa")
SUBa ==
    Pad8(<<U_FE0, U_FE1, U_AC0, U_AC1, OrAll({U_ARO, U_BRI}), OrAll({U_MEO, U_ARI}), OrAll({U_SUO, U_SUB, U_ARI, U_FRI}), U_END>>)

\* isa[010] (ucode.ino lines 132-140, labelled "010: RSBc")
RSBc ==
    Pad8(<<U_FE0, U_FE1, U_CUP, OrAll({U_ARO, U_BRI}), OrAll({U_MEO, U_ARI}), OrAll({U_SUO, U_SUB, U_ARI, U_FRI}), U_END>>)

\* isa[011] (ucode.ino lines 140-148, labelled "011: RSBz")
RSBz ==
    Pad8(<<U_FE0, U_FE1, U_ZEP, OrAll({U_ARO, U_BRI}), OrAll({U_MEO, U_ARI}), OrAll({U_SUO, U_SUB, U_ARI, U_FRI}), U_END>>)

\* isa[012] (ucode.ino lines 148-155, labelled "012: RSBi")
RSBi ==
    Pad8(<<U_FE0, U_FE1, OrAll({U_ARO, U_BRI}), OrAll({U_IRO, U_ARI}), OrAll({U_SUO, U_SUB, U_ARI, U_FRI}), U_END>>)

\* isa[013] (ucode.ino lines 155-164, labelled "013: RSBa")
RSBa ==
    Pad8(<<U_FE0, U_FE1, U_AC0, U_AC1, OrAll({U_ARO, U_BRI}), OrAll({U_MEO, U_ARI}), OrAll({U_SUO, U_SUB, U_ARI, U_FRI}), U_END>>)

\* isa[014] (ucode.ino lines 164-171, labelled "014: SHLc")
SHLc ==
    Pad8(<<U_FE0, U_FE1, U_CUP, OrAll({U_MEO, U_ARI, U_BRI}), OrAll({U_SUO, U_ARI, U_FRI}), U_END>>)

\* isa[015] (ucode.ino lines 171-178, labelled "015: SHLz")
SHLz ==
    Pad8(<<U_FE0, U_FE1, U_ZEP, OrAll({U_MEO, U_ARI, U_BRI}), OrAll({U_SUO, U_ARI, U_FRI}), U_END>>)

\* isa[016] (ucode.ino lines 178-184, labelled "016: SHLi")
SHLi ==
    Pad8(<<U_FE0, U_FE1, OrAll({U_IRO, U_ARI, U_BRI}), OrAll({U_SUO, U_ARI, U_FRI}), U_END>>)

\* isa[017] (ucode.ino lines 184-192, labelled "017: SHLa")
SHLa ==
    Pad8(<<U_FE0, U_FE1, U_AC0, U_AC1, OrAll({U_MEO, U_ARI, U_BRI}), OrAll({U_SUO, U_ARI, U_FRI}), U_END>>)

\* isa[020] (ucode.ino lines 192-199, labelled "020: CMPc")
CMPc ==
    Pad8(<<U_FE0, U_FE1, U_CUP, OrAll({U_MEO, U_BRI}), OrAll({U_SUB, U_FRI}), U_END>>)

\* isa[021] (ucode.ino lines 199-206, labelled "021: CMPz")
CMPz ==
    Pad8(<<U_FE0, U_FE1, U_ZEP, OrAll({U_MEO, U_BRI}), OrAll({U_SUB, U_FRI}), U_END>>)

\* isa[022] (ucode.ino lines 206-212, labelled "022: CMPi")
CMPi ==
    Pad8(<<U_FE0, U_FE1, OrAll({U_IRO, U_BRI}), OrAll({U_SUB, U_FRI}), U_END>>)

\* isa[023] (ucode.ino lines 212-220, labelled "023: CMPa")
CMPa ==
    Pad8(<<U_FE0, U_FE1, U_AC0, U_AC1, OrAll({U_MEO, U_BRI}), OrAll({U_SUB, U_FRI}), U_END>>)

\* isa[024] (ucode.ino lines 220-226, labelled "024: LDAc")
LDAc ==
    Pad8(<<U_FE0, U_FE1, U_CUP, OrAll({U_MEO, U_ARI}), U_END>>)

\* isa[025] (ucode.ino lines 226-232, labelled "025: LDAz")
LDAz ==
    Pad8(<<U_FE0, U_FE1, U_ZEP, OrAll({U_MEO, U_ARI}), U_END>>)

\* isa[026] (ucode.ino lines 232-237, labelled "026: LDAi")
LDAi ==
    Pad8(<<U_FE0, U_FE1, OrAll({U_IRO, U_ARI}), U_END>>)

\* isa[027] (ucode.ino lines 237-244, labelled "027: LDAa")
LDAa ==
    Pad8(<<U_FE0, U_FE1, U_AC0, U_AC1, U_MEO, U_ARI, U_END>>)

\* isa[030] (ucode.ino lines 244-250, labelled "030: STAc")
STAc ==
    Pad8(<<U_FE0, U_FE1, U_CUP, OrAll({U_ARO, U_MEI}), U_END>>)

\* isa[031] (ucode.ino lines 250-256, labelled "031: STAz")
STAz ==
    Pad8(<<U_FE0, U_FE1, U_ZEP, OrAll({U_ARO, U_MEI}), U_END>>)

\* isa[032] (ucode.ino lines 256-262, labelled "032: STAi")
STAi ==
    Pad8(<<U_FE0, U_FE1, U_CUP, OrAll({U_ARO, U_MEI}), U_END>>)

\* isa[033] (ucode.ino lines 262-269, labelled "033: STAa")
STAa ==
    Pad8(<<U_FE0, U_FE1, U_AC0, U_AC1, OrAll({U_ARO, U_MEI}), U_END>>)

\* isa[034] (ucode.ino lines 269-275, labelled "034: OUTc")
OUTc ==
    Pad8(<<U_FE0, U_FE1, U_CUP, OrAll({U_MEO, U_OUT}), U_END>>)

\* isa[035] (ucode.ino lines 275-281, labelled "035: OUTz")
OUTz ==
    Pad8(<<U_FE0, U_FE1, U_ZEP, OrAll({U_MEO, U_OUT}), U_END>>)

\* isa[036] (ucode.ino lines 281-286, labelled "036: OUTi")
OUTi ==
    Pad8(<<U_FE0, U_FE1, OrAll({U_IRO, U_OUT}), U_END>>)

\* isa[037] (ucode.ino lines 286-293, labelled "037: OUTa")
OUTa ==
    Pad8(<<U_FE0, U_FE1, U_AC0, U_AC1, OrAll({U_MEO, U_OUT}), U_END>>)

\* isa[040] (ucode.ino lines 293-299, labelled "040: JMPc")
JMPc ==
    Pad8(<<U_FE0, U_FE1, U_CUP, OrAll({U_MEO, U_JMP}), U_END>>)

\* isa[041] (ucode.ino lines 299-305, labelled "041: JMPz")
JMPz ==
    Pad8(<<U_FE0, U_FE1, U_ZEP, OrAll({U_MEO, U_JMP}), U_END>>)

\* JMPi driving the low half of the bus from PC and from I at once
JMPi_plo ==
    Pad8(<<U_FE0, U_FE1, OrAll({U_IRO, U_PLO, U_JMP}), U_END>>)

\* isa[042] (ucode.ino lines 305-310, labelled "042: JMPi")
JMPi ==
    Pad8(<<U_FE0, U_FE1, OrAll({U_IRO, U_PHO, U_JMP}), U_END>>)

\* isa[043] (ucode.ino lines 310-317, labelled "043: JMPa")
JMPa ==
    Pad8(<<U_FE0, U_FE1, U_AC0, U_AC1, OrAll({U_MEO, U_JMP}), U_END>>)

\* isa[044] (ucode.ino lines 317-323, labelled "044: JPCc")
JPCc ==
    Pad8(<<U_FE0, U_FE1, U_CUP, OrAll({U_MEO, U_JPC}), U_END>>)

\* isa[045] (ucode.ino lines 323-329, labelled "045: JPCz")
JPCz ==
    Pad8(<<U_FE0, U_FE1, U_ZEP, OrAll({U_MEO, U_JPC}), U_END>>)

\* isa[046] (ucode.ino lines 329-334, labelled "046: JPCi")
JPCi ==
    Pad8(<<U_FE0, U_FE1, OrAll({U_IRO, U_PHO, U_JPC}), U_END>>)

\* isa[047] (ucode.ino lines 334-341, labelled "047: JPCa")
JPCa ==
    Pad8(<<U_FE0, U_FE1, U_AC0, U_AC1, OrAll({U_MEO, U_JPC}), U_END>>)

\* isa[050] (ucode.ino lines 341-347, labelled "050: JPNc")
JPNc ==
    Pad8(<<U_FE0, U_FE1, U_CUP, OrAll({U_MEO, U_JPN}), U_END>>)

\* isa[051] (ucode.ino lines 347-353, labelled "051: JPNz")
JPNz ==
    Pad8(<<U_FE0, U_FE1, U_ZEP, OrAll({U_MEO, U_JPN}), U_END>>)

\* isa[052] (ucode.ino lines 353-358, labelled "052: JPNi")
JPNi ==
    Pad8(<<U_FE0, U_FE1, OrAll({U_IRO, U_PHO, U_JPN}), U_END>>)

\* isa[053] (ucode.ino lines 358-365, labelled "053: JPNa")
JPNa ==
    Pad8(<<U_FE0, U_FE1, U_AC0, U_AC1, OrAll({U_MEO, U_JPN}), U_END>>)

\* isa[054] (ucode.ino lines 365-374, labelled "050: JMSc")
JMSc ==
    Pad8(<<U_FE0, U_FE1, U_CUP, OrAll({U_MEO, U_MRI}), OrAll({U_PCO, U_MEI}), OrAll({U_MRO, U_PCI}), U_PCE, U_END>>)

\* isa[055] (ucode.ino lines 374-383, labelled "051: JMSz")
JMSz ==
    Pad8(<<U_FE0, U_FE1, U_ZEP, OrAll({U_MEO, U_MRI}), OrAll({U_PCO, U_MEI}), OrAll({U_MRO, U_PCI}), U_PCE, U_END>>)

\* isa[056] (ucode.ino lines 383-391, labelled "052: JMSi")
JMSi ==
    Pad8(<<U_FE0, U_FE1, OrAll({U_IRO, U_PHO, U_MRI}), OrAll({U_PCO, U_MEI}), OrAll({U_MRO, U_PCI}), U_PCE, U_END>>)

\* isa[057] (ucode.ino lines 391-400, labelled "053: JMSa")
JMSa ==
    Pad8(<<U_FE0, U_FE1, U_AC0, U_AC1, OrAll({U_MEO, U_MRI}), OrAll({U_PCO, U_MEI}), OrAll({U_MRO, U_PCI}), U_PCE>>)

\* NOPc without its end marker
NOPc_noend ==
    Pad8(<<U_FE0, U_FE1, U_CUP>>)

\* isa[060] (ucode.ino lines 400-405, labelled "060: NOPc")
NOPc ==
    Pad8(<<U_FE0, U_FE1, U_CUP, U_END>>)

\* isa[061] (ucode.ino lines 405-410, labelled "061: NOPz")
NOPz ==
    Pad8(<<U_FE0, U_FE1, U_ZEP, U_END>>)

\* isa[062] (ucode.ino lines 410-414, labelled "062: NOPi")
NOPi ==
    Pad8(<<U_FE0, U_FE1, U_END>>)

\* isa[063] (ucode.ino lines 414-420, labelled "063: NOPa")
NOPa ==
    Pad8(<<U_FE0, U_FE1, U_AC0, U_AC1, U_END>>)

\* SWPc with U_ZEO alone at cycle 5
SWPc_zeo ==
    Pad8(<<U_FE0, U_FE1, U_CUP, OrAll({U_MEO, U_BRI}), OrAll({U_ARO, U_MEI}), U_ZEO, OrAll({U_SUO, U_ARI}), U_END>>)

\* isa[064] (ucode.ino lines 420-429, labelled "064: SWPc")
SWPc ==
    Pad8(<<U_FE0, U_FE1, U_CUP, OrAll({U_MEO, U_BRI}), OrAll({U_ARO, U_MEI}), OrAll({U_ZEO, U_ARI}), OrAll({U_SUO, U_ARI}), U_END>>)

\* isa[065] (ucode.ino lines 429-438, labelled "065: SWPz")
SWPz ==
    Pad8(<<U_FE0, U_FE1, U_ZEP, OrAll({U_MEO, U_BRI}), OrAll({U_ARO, U_MEI}), OrAll({U_ZEO, U_ARI}), OrAll({U_SUO, U_ARI}), U_END>>)

\* isa[066] (ucode.ino lines 438-443, labelled "066: SWPi")
SWPi ==
    Pad8(<<U_FE0, U_FE1, OrAll({U_IRO, U_ARI}), U_END>>)

\* isa[067] (ucode.ino lines 443-452, labelled "067: SWPa")
SWPa ==
    Pad8(<<U_FE0, U_FE1, U_AC0, U_AC1, OrAll({U_MEO, U_BRI}), OrAll({U_ARO, U_MEI}), OrAll({U_ZEO, U_ARI}), OrAll({U_SUO, U_ARI})>>)

\* isa[070] (ucode.ino lines 452-457, labelled "070: ---c")
ILLc ==
    Pad8(<<U_FE0, U_FE1, U_CUP, U_END>>)

\* isa[071] (ucode.ino lines 457-462, labelled "071: ---z")
ILLz ==
    Pad8(<<U_FE0, U_FE1, U_ZEP, U_END>>)

\* the reserved immediate row as a halt
ILLi_halt ==
    Pad8(<<U_FE0, U_FE1, U_HLT>>)

\* isa[072] (ucode.ino lines 462-466, labelled "072: ---i")
ILLi ==
    Pad8(<<U_FE0, U_FE1, U_END>>)

\* isa[073] (ucode.ino lines 466-472, labelled "073: ---a")
ILLa ==
    Pad8(<<U_FE0, U_FE1, U_AC0, U_AC1, U_END>>)

\* isa[074] (ucode.ino lines 472-476, labelled "074: HLTc")
HLTc ==
    Pad8(<<U_FE0, U_FE1, U_HLT>>)

\* isa[075] (ucode.ino lines 476-480, labelled "075: HLTz")
HLTz ==
    Pad8(<<U_FE0, U_FE1, U_HLT>>)

\* isa[076] (ucode.ino lines 480-484, labelled "076: HLTi")
HLTi ==
    Pad8(<<U_FE0, U_FE1, U_HLT>>)

\* HLTa entered without the second fetch step
HLTa_nofetch ==
    Pad8(<<U_FE0, U_HLT>>)

\* isa[077] (ucode.ino lines 484-488, labelled "077: HLTa")
HLTa ==
    Pad8(<<U_FE0, U_FE1, U_HLT>>)

\* PROGMEM static const unsigned long isa[64][8]; isa[inst][cycle] is isa[inst + 1][cycle + 1] here
isa ==
    <<ADDc, ADDz, ADDi, ADDa,
      SUBc, SUBz, SUBi, SUBa,
      RSBc, RSBz, RSBi, RSBa,
      SHLc, SHLz, SHLi, SHLa,
      CMPc, CMPz, CMPi, CMPa,
      LDAc, LDAz, LDAi, LDAa,
      STAc, STAz, STAi, STAa,
      OUTc, OUTz, OUTi, OUTa,
      JMPc, JMPz, JMPi, JMPa,
      JPCc, JPCz, JPCi, JPCa,
      JPNc, JPNz, JPNi, JPNa,
      JMSc, JMSz, JMSi, JMSa,
      NOPc, NOPz, NOPi, NOPa,
      SWPc, SWPz, SWPi, SWPa,
      ILLc, ILLz, ILLi, ILLa,
      HLTc, HLTz, HLTi, HLTa>>

\* isa[inst][cycle]
IsaWord(inst, cycle) == isa[inst + 1][cycle + 1]

\* bank = address >> 9
Bank(a) == Shr(a, 9)
\* Cycle with a two-bit mask
Cycle_mask3(a) == Shr(a, 6) % 4

\* cycle = (address >> 6) & 7
Cycle(a) == Shr(a, 6) % 8
\* inst = address & 077
Inst(a) == a % 64

\* the shift amount of control >> (bank << 3)
ShiftAmount(a) == Shl(Bank(a), 3)

\* inst and cycle index isa[64][8] inside its bounds
ucode_IndexOK(a) ==
    a > 2048 \/ (Inst(a) \in 0..63 /\ Cycle(a) \in 0..7)

\* the shift amount is smaller than the width of unsigned long
ucode_ShiftOK(a) ==
    a > 2048 \/ ShiftAmount(a) < LongBits

\* the bytes a build can return for getOutputByte(a): one byte wherever the
\* evaluation is defined; where control is shifted by its full width or more,
\* either zero (the shift loop of avr-gcc) or the byte of a shift taken modulo
\* the width (a barrel shifter)
ucode_getOutputByte(a) ==
    IF a > 2048 THEN {0}
    ELSE LET control == IsaWord(Inst(a), Cycle(a))
             s == ShiftAmount(a)
         IN  IF s < LongBits THEN {ToUChar(Shr(control, s))}
             ELSE {0, ToUChar(Shr(control, s % LongBits))}

getOutputByte(v, a) ==
    IF v = "sevenseg" THEN {sevenseg_getOutputByte(a)} ELSE ucode_getOutputByte(a)

----------------------------------------------------------------------------
(* The pins and the serial port                                             *)

SHIFT_DATA == 2
SHIFT_CLOCK == 3
EEPROM_WE == 4      \* active low
EEPROM_OE == 13     \* active low
EEPROM_DATA_0 == 5

\* every pin is an input without pull-up after reset
PowerUp == [n \in SHIFT_DATA..EEPROM_OE |-> [mode |-> "INPUT", port |-> 0]]

\* pinMode(n, m): INPUT also clears the output latch (no pull-up)
pinMode(p, n, m) ==
    [p EXCEPT ![n] = [mode |-> m, port |-> IF m = "INPUT" THEN 0 ELSE p[n].port]]

\* digitalWrite(n, v): on an input pin the latch switches the pull-up
digitalWrite(p, n, v) == [p EXCEPT ![n].port = v]

\* the level a pin gives its line: driven, pulled up, or floating (-1)
Level(p, n) ==
    IF p[n].mode = "OUTPUT" \/ p[n].port = 1 THEN p[n].port ELSE -1

\* a pin statement of a straight-line sequence
Write(n, v) == [f |-> "digitalWrite", pin |-> n, val |-> v]
Mode(n, m) == [f |-> "pinMode", pin |-> n, val |-> m]
Execute(p, st) ==
    IF st.f = "pinMode" THEN pinMode(p, st.pin, st.val) ELSE digitalWrite(p, st.pin, st.val)

\* the pin statements of setup() before the programming loop
setup_head ==
    <<Write(EEPROM_OE, 1), Mode(EEPROM_OE, "OUTPUT"),
      Write(EEPROM_WE, 1), Mode(EEPROM_WE, "OUTPUT")>>
    \o [k \in 1..8 |-> Mode(EEPROM_DATA_0 + k - 1, "OUTPUT")]
    \o <<Write(SHIFT_DATA, 0), Write(SHIFT_CLOCK, 0),
         Mode(SHIFT_DATA, "OUTPUT"), Mode(SHIFT_CLOCK, "OUTPUT")>>

\* dump_head asserting OE before the data pins are inputs
dump_head_oefirst ==
    <<Write(EEPROM_WE, 1), Write(EEPROM_OE, 0)>>
    \o [k \in 1..8 |-> Mode(EEPROM_DATA_0 + k - 1, "INPUT")]

\* the pin statements of dumpEeprom() before its loop
dump_head ==
    <<Write(EEPROM_WE, 1)>>
    \o [k \in 1..8 |-> Mode(EEPROM_DATA_0 + k - 1, "INPUT")]
    \o <<Write(EEPROM_OE, 0)>>

\* a whole sequence of pin statements
RECURSIVE Run(_, _)
Run(p, sts) ==
    IF sts = <<>> THEN p ELSE Run(Execute(p, Head(sts)), Tail(sts))

\* the loop head: no call in progress
Top == [op |-> "top", k |-> 0, arg |-> 0]

\* "0123456789abcdef"
HexDigits ==
    <<"0", "1", "2", "3", "4", "5", "6", "7", "8", "9", "a", "b", "c", "d", "e", "f">>

\* DumpText ending the line after every 8th byte
DumpText_eol8(d, a) ==
    <<IF d < 0 THEN "?" ELSE HexDigits[Shr(d, 4) + 1],
      IF d < 0 THEN "?" ELSE HexDigits[(d % 16) + 1],
      IF (a + 1) % 8 # 0 THEN " " ELSE "\n">>

\* the three characters dumpEeprom writes for byte d of address a; a byte read
\* from a cell that is not observed (d = -1) is shown as "??"
DumpText(d, a) ==
    <<IF d < 0 THEN "?" ELSE HexDigits[Shr(d, 4) + 1],
      IF d < 0 THEN "?" ELSE HexDigits[(d % 16) + 1],
      IF (a + 1) % 16 # 0 THEN " " ELSE "\n">>

----------------------------------------------------------------------------
(* The encoders applied to single addresses                                 *)

Variants == {"sevenseg", "ucode"}

\* the first address above which an encoder returns its default
Guard(v) == IF v = "sevenseg" THEN 32767 ELSE 2048

EncInputs(v) ==
    {a \in 0..65535 : a <= Guard(v) + DenseMargin \/ a % SparseStep = 0 \/ a = 65535}

\* the data lines before anything drives them
NoPins == [k \in 0..7 |-> 0]

InitEnc ==
    /\ variant \in Variants
    /\ IF variant = "ucode"
       THEN U_MRO \in UndefinedSignal /\ U_PCI \in UndefinedSignal
       ELSE U_MRO = 0 /\ U_PCI = 0
    /\ address \in EncInputs(variant)
    /\ data = 0
    /\ pc = "call"
    /\ i = 0 /\ j = 0 /\ sr = 0
    /\ pins = NoPins
    /\ mem = <<>> /\ pulses = 0
    /\ cpu = <<>> /\ boot = <<>>
    /\ io = PowerUp /\ at = Top /\ serial = <<>>

Encode ==
    /\ pc = "call"
    /\ data' \in getOutputByte(variant, address)
    /\ pc' = "return"
    /\ UNCHANGED <<variant, U_MRO, U_PCI, i, j, address, sr, pins, mem, pulses>>
    /\ UNCHANGED <<cpu, boot, io, at, serial>>

NextEnc == Encode

SpecEnc == InitEnc /\ [][NextEnc]_vars

----------------------------------------------------------------------------
(* The datapath the control words drive, as the signal comments of          *)
(* ucode.ino and README.md describe it: 12-bit words, a bus that the xxO    *)
(* signals drive and the xxI signals latch, one control word per cycle.     *)

WordBits == 12      \* "a 12-bit computer"
ArgBits == 6        \* "a 6-bit argument"; pages of 64 words

\* the number of RAM words the model holds
RamWords == 192
\* multipliers that fill the RAM with distinct words
RamSeeds == {1, 1365}

Word(x) == x % (2 ^ WordBits)
\* HIGH(x) and LOW(x): the upper and lower 6 bits of x, each in its place
HIGH(x) == x - (x % (2 ^ ArgBits))
LOW(x) == x % (2 ^ ArgBits)

\* the control word asserts the signal
Asserts(w, signal) == (w \div signal) % 2 = 1

\* the control store is addressed by the upper 6 bits of I and the cycle
ControlWord(c) == IsaWord(c.I \div (2 ^ ArgBits), c.cycle)

\* the adder: A + B, or A - B when U_SUB is asserted
Alu(c, w) ==
    IF Asserts(w, U_SUB) THEN Word(c.A - c.B + 2 ^ WordBits) ELSE Word(c.A + c.B)

\* what the asserted drivers put on the bus; no driver leaves it zero (U_ZEO)
Bus(c, w) ==
    OrAll({IF Asserts(w, U_ARO) THEN c.A ELSE 0,
           IF Asserts(w, U_SUO) THEN Alu(c, w) ELSE 0,
           IF Asserts(w, U_PHO) THEN HIGH(c.PC) ELSE 0,
           IF Asserts(w, U_PLO) THEN LOW(c.PC) ELSE 0,
           IF Asserts(w, U_IRO) THEN LOW(c.I) ELSE 0,
           IF Asserts(w, U_MEO) THEN c.ram[c.M] ELSE 0})

\* the datapath after the clock edge that ends a cycle under control word w
Clock(c, w) ==
    LET bus == Bus(c, w)
    IN  [A      |-> IF Asserts(w, U_ARI) THEN bus ELSE c.A,
         B      |-> IF Asserts(w, U_BRI) THEN bus ELSE c.B,
         M      |-> IF Asserts(w, U_MRI) THEN bus ELSE c.M,
         I      |-> IF Asserts(w, U_IRI) THEN bus ELSE c.I,
         PC     |-> IF Asserts(w, U_JMP) THEN bus
                    ELSE IF Asserts(w, U_PCE) THEN Word(c.PC + 1)
                    ELSE c.PC,
         ram    |-> IF Asserts(w, U_MEI) THEN [c.ram EXCEPT ![c.M] = bus] ELSE c.ram,
         out    |-> IF Asserts(w, U_OUT) THEN bus ELSE c.out,
         halted |-> Asserts(w, U_HLT),
         cycle  |-> IF Asserts(w, U_END) THEN 0 ELSE (c.cycle + 1) % 8]

\* the opcodes whose sequences assert only signals the comments describe
\* without the flags: JPC, JPN (flag reads) and JMS (U_MRO, U_PCI) are left out
CpuOpcodes == (0..63) \ (36..47)

\* one instruction word in RAM at PC, the other words filled from a seed
InitCpu ==
    /\ variant = "ucode"
    /\ U_MRO \in UndefinedSignal /\ U_PCI \in UndefinedSignal
    /\ pc = "execute"
    /\ i = 0 /\ j = 0 /\ address = 0 /\ data = 0 /\ sr = 0
    /\ pins = NoPins
    /\ mem = <<>> /\ pulses = 0
    /\ io = PowerUp /\ at = Top /\ serial = <<>>
    /\ \E opcode \in CpuOpcodes, arg \in {1, 5, 2 ^ ArgBits - 1},
          a \in {0, 3, 2 ^ WordBits - 1}, start \in {2 ^ ArgBits, 2 ^ ArgBits + 5},
          seed \in RamSeeds, last \in {0, 2 ^ WordBits - 1} :
          cpu = [A |-> a, B |-> 0, M |-> 0, I |-> last, PC |-> start,
                 ram |-> [x \in 0..(RamWords - 1) |->
                             IF x = start THEN opcode * 2 ^ ArgBits + arg
                             ELSE Word(seed * (x + 1))],
                 out |-> 0, halted |-> FALSE, cycle |-> 0]
    /\ boot = cpu

\* one cycle: the control word of the current cycle acts on the datapath
Step ==
    /\ pc = "execute"
    /\ cpu' = Clock(cpu, ControlWord(cpu))
    /\ pc' = IF cpu'.halted \/ cpu'.cycle = 0 THEN "complete" ELSE "execute"
    /\ UNCHANGED <<variant, U_MRO, U_PCI, i, j, address, data, sr, pins, mem, pulses, boot>>
    /\ UNCHANGED <<io, at, serial>>

NextCpu == Step

SpecCpu == InitCpu /\ [][NextCpu]_vars

----------------------------------------------------------------------------
(* Address presentation and the data bus                                    *)

\* one rising edge of SHIFT_CLOCK with SHIFT_DATA at level b
ClockIn(reg, b) == (Shl(reg, 1) + b) % (2 ^ 16)

\* shiftOut(dataPin, clockPin, MSBFIRST, val): bits 7 down to 0 of val
RECURSIVE shiftOut(_, _, _)
shiftOut(reg, val, k) ==
    IF k < 0 THEN reg
    ELSE shiftOut(ClockIn(reg, Bit(val, k)), val, k - 1)

\* writeEepromAddress with the low byte sent first
writeEepromAddress_swapped(reg, a) ==
    shiftOut(shiftOut(reg, ToUChar(a), 7), ToUChar(Shr(a, 8)), 7)

\* writeEepromAddress: the high byte, then the low byte
writeEepromAddress(reg, a) ==
    shiftOut(shiftOut(reg, ToUChar(Shr(a, 8)), 7), ToUChar(a), 7)

\* the pin loop of writeEepromByte: digitalWrite(i, data & 1), then data >>= 1
RECURSIVE DrivePins(_, _, _)
DrivePins(p, d, k) ==
    IF k > 7 THEN p
    ELSE DrivePins([p EXCEPT ![k] = d % 2], Shr(d, 1), k + 1)

\* the device's view of the data lines: line EEPROM_DATA_0+k is its bit k
RECURSIVE BusByte(_, _)
BusByte(p, k) ==
    IF k > 7 THEN 0 ELSE p[k] * (2 ^ k) + BusByte(p, k + 1)

\* with OE low the device drives the byte stored at the presented address
DeviceDrives(m, reg) == [k \in 0..7 |-> Bit(m[reg], k)]

\* the data lines while the device drives them from a cell that is not observed
\* (the byte then read is recorded as -1)
Untracked == [k \in 0..7 |-> -1]

\* sevenseg.ino: data |= (digitalRead(EEPROM_DATA_0 + k) == HIGH ? 1 : 0) << k
RECURSIVE sevenseg_ReadPins(_, _, _)
sevenseg_ReadPins(p, d, k) ==
    IF k > 7 THEN d
    ELSE sevenseg_ReadPins(p, ToUChar(BitOr(d, Shl(p[k], k))), k + 1)

\* ucode_ReadPins walking the pins upwards: the byte comes out bit-reversed
RECURSIVE ucode_ReadPins_upwards(_, _, _)
ucode_ReadPins_upwards(p, d, k) ==
    IF k < 0 THEN d
    ELSE ucode_ReadPins_upwards(p, ToUChar(BitOr(Shl(d, 1), p[7 - k])), k - 1)

\* ucode.ino: for (k = EEPROM_DATA_0 + 8; k-- > EEPROM_DATA_0; ) data = (data << 1) | digitalRead(k)
RECURSIVE ucode_ReadPins(_, _, _)
ucode_ReadPins(p, d, k) ==
    IF k < 0 THEN d
    ELSE ucode_ReadPins(p, ToUChar(BitOr(Shl(d, 1), p[k])), k - 1)

ReadPins(v, p) ==
    IF v = "sevenseg" THEN sevenseg_ReadPins(p, 0, 0) ELSE ucode_ReadPins(p, 0, 7)

----------------------------------------------------------------------------
(* setup(): the programming sweep and the dump                              *)

\* loop limits of setup()
Pages(v) == IF v = "sevenseg" THEN 8 ELSE 4
PageSize(v) == IF v = "sevenseg" THEN 4096 ELSE 512
PageShift(v) == IF v = "sevenseg" THEN 12 ELSE 9
FillBegin == 2048
FillEnd == 8192
\* dumpEeprom(0, end)
DumpBegin == 0
DumpEnd(v) == IF v = "sevenseg" THEN 4096 ELSE 512

\* the last address the sweep writes, plus one
SweepEnd(v) == IF v = "sevenseg" THEN Shl(Pages(v), PageShift(v)) ELSE FillEnd

\* the EEPROM cells whose contents the model follows
IsWatched(v, a) ==
    /\ a \in 0..(SweepEnd(v) - 1)
    /\ \/ a < DenseWatch
       \/ a % WatchStride = 0
       \/ a % PageSize(v) \in {0, PageSize(v) - 1}

Watched(v) == {a \in 0..(SweepEnd(v) - 1) : IsWatched(v, a)}

\* WritePulse on a device that also stores the byte in the first page
WritePulse_aliased(v, m, reg, p) ==
    IF IsWatched(v, reg)
    THEN [m EXCEPT ![reg] = BusByte(p, 0), ![reg % PageSize(v)] = BusByte(p, 0)]
    ELSE m

\* a low pulse on WE stores the byte on the data lines at the presented address
WritePulse(v, m, reg, p) ==
    IF IsWatched(v, reg) THEN [m EXCEPT ![reg] = BusByte(p, 0)] ELSE m

\* what the device may hold before it is programmed
InitialFill == {0, 255}

\* the data lines: a pin in OUTPUT mode drives its line, otherwise the device
\* does while OE is low, otherwise the line keeps its level
Lines(v, p, old, m, reg) ==
    [k \in 0..7 |->
        IF p[EEPROM_DATA_0 + k].mode = "OUTPUT" THEN p[EEPROM_DATA_0 + k].port
        ELSE IF Level(p, EEPROM_OE) = 0
             THEN (IF IsWatched(v, reg) THEN DeviceDrives(m, reg) ELSE Untracked)[k]
             ELSE old[k]]

\* the output latches after writeEepromAddress(a): SHIFT_DATA keeps bit 0 of a
Presented(p, a) == digitalWrite(p, SHIFT_DATA, Bit(a, 0))

\* the output latches after the pin loop of writeEepromByte(d)
Driven(p, d) ==
    [n \in DOMAIN p |->
        IF n \in EEPROM_DATA_0..(EEPROM_DATA_0 + 7)
        THEN [p[n] EXCEPT !.port = Bit(d, n - EEPROM_DATA_0)]
        ELSE p[n]]

Programming == <<"P", "r", "o", "g", "r", "a", "m", "m", "i", "n", "g">>
Finished == <<"\n", "F", "i", "n", "i", "s", "h", "e", "d", "\n">>

\* the state when the programming loop is entered: "Programming" written, the
\* pins configured
Init ==
    /\ variant \in Variants
    /\ IF variant = "ucode"
       THEN U_MRO \in UndefinedSignal /\ U_PCI \in UndefinedSignal
       ELSE U_MRO = 0 /\ U_PCI = 0
    /\ pc = "program"
    /\ i = 0 /\ j = 0
    /\ address = 0
    /\ data = 0
    /\ sr = 0
    /\ pins = NoPins
    /\ \E f \in InitialFill : mem = [a \in Watched(variant) |-> f]
    /\ pulses = 0
    /\ cpu = <<>> /\ boot = <<>>
    /\ io = Run(PowerUp, setup_head)
    /\ at = Top
    /\ serial = Programming

\* one pass through the body of the inner programming loop
ProgramByte ==
    /\ pc = "program"
    /\ i < Pages(variant)
    /\ j < PageSize(variant)
    /\ LET addr == ToUInt(BitOr(Shl(i, PageShift(variant)), j))
           reg == writeEepromAddress(sr, addr)
       IN  /\ address' = addr
           /\ sr' = reg
           /\ \E d \in getOutputByte(variant, addr) :
                 /\ data' = d
                 /\ pins' = DrivePins(pins, d, 0)
                 /\ mem' = WritePulse(variant, mem, reg, DrivePins(pins, d, 0))
                 /\ io' = Driven(Presented(io, addr), d)
           /\ pulses' = pulses + 1
    /\ j' = ToUInt(j + 1)
    /\ UNCHANGED <<variant, U_MRO, U_PCI, pc, i>>
    /\ UNCHANGED <<cpu, boot, at, serial>>

\* the inner loop ends: Serial.write('.') and the next page, or the next loop
PageDone ==
    /\ pc = "program"
    /\ i < Pages(variant)
    /\ j = PageSize(variant)
    /\ serial' = serial \o <<".">>
    /\ IF ToUInt(i + 1) < Pages(variant)
       THEN /\ i' = ToUInt(i + 1) /\ j' = 0 /\ pc' = pc
       ELSE IF variant = "ucode"
            THEN /\ i' = FillBegin /\ j' = j /\ pc' = "fill"
            ELSE /\ i' = ToUInt(i + 1) /\ j' = j /\ pc' = "finished"
    /\ UNCHANGED <<variant, U_MRO, U_PCI, address, data, sr, pins, mem, pulses>>
    /\ UNCHANGED <<cpu, boot, io, at>>

\* ucode.ino: one pass through the body of the zero-fill loop
FillByte ==
    /\ pc = "fill"
    /\ i < FillEnd
    /\ LET reg == writeEepromAddress(sr, i)
       IN  /\ sr' = reg
           /\ pins' = DrivePins(pins, 0, 0)
           /\ mem' = WritePulse(variant, mem, reg, DrivePins(pins, 0, 0))
           /\ io' = Driven(Presented(io, i), 0)
           /\ pulses' = pulses + 1
    /\ serial' = IF (i + 1) % 512 = 0 THEN serial \o <<".">> ELSE serial
    /\ i' = ToUInt(i + 1)
    /\ UNCHANGED <<variant, U_MRO, U_PCI, pc, j, address, data>>
    /\ UNCHANGED <<cpu, boot, at>>

\* ucode.ino: the zero-fill loop ends
FillDone ==
    /\ pc = "fill"
    /\ i = FillEnd
    /\ pc' = "finished"
    /\ UNCHANGED <<variant, U_MRO, U_PCI, i, j, address, data, sr, pins, mem, pulses>>
    /\ UNCHANGED <<cpu, boot, io, at, serial>>

\* "\nFinished\n" and the head of dumpEeprom: WE high, data pins to INPUT, OE low
DumpStart ==
    /\ pc = "finished"
    /\ pc' = "dump"
    /\ i' = DumpBegin
    /\ serial' = serial \o Finished
    /\ io' = Run(io, dump_head)
    /\ pins' = IF IsWatched(variant, sr) THEN DeviceDrives(mem, sr) ELSE Untracked
    /\ UNCHANGED <<variant, U_MRO, U_PCI, j, address, data, sr, mem, pulses>>
    /\ UNCHANGED <<cpu, boot, at>>

\* one pass through the body of the loop of dumpEeprom
DumpByte ==
    /\ pc = "dump"
    /\ i < DumpEnd(variant)
    /\ LET reg == writeEepromAddress(sr, i)
       IN  /\ sr' = reg
           /\ IF IsWatched(variant, reg)
              THEN /\ pins' = DeviceDrives(mem, reg)
                   /\ data' = ReadPins(variant, DeviceDrives(mem, reg))
              ELSE /\ pins' = Untracked
                   /\ data' = -1
    /\ io' = Presented(io, i)
    /\ serial' = serial \o DumpText(data', i)
    /\ i' = ToUInt(i + 1)
    /\ UNCHANGED <<variant, U_MRO, U_PCI, pc, j, address, mem, pulses>>
    /\ UNCHANGED <<cpu, boot, at>>

\* DumpDone with the sweep placed in loop(): it starts again after the dump
DumpDone_again ==
    /\ pc = "dump"
    /\ i = DumpEnd(variant)
    /\ pc' = "program"
    /\ i' = 0 /\ j' = 0
    /\ UNCHANGED <<variant, U_MRO, U_PCI, address, data, sr, pins, mem, pulses>>
    /\ UNCHANGED <<cpu, boot, io, at, serial>>

\* the loop of dumpEeprom ends: Serial.end(), and loop() does nothing
DumpDone ==
    /\ pc = "dump"
    /\ i = DumpEnd(variant)
    /\ pc' = "done"
    /\ UNCHANGED <<variant, U_MRO, U_PCI, i, j, address, data, sr, pins, mem, pulses>>
    /\ UNCHANGED <<cpu, boot, io, at, serial>>

Next ==
    \/ ProgramByte
    \/ PageDone
    \/ FillByte
    \/ FillDone
    \/ DumpStart
    \/ DumpByte
    \/ DumpDone

Spec == Init /\ [][Next]_vars

----------------------------------------------------------------------------
(* The same run pin event by pin event, from reset. The loop passes whose   *)
(* address is observed are taken one pin statement at a time; the others     *)
(* are taken whole.                                                         *)

\* what the address shift register may hold at reset
LatchSamples == {0, 23130, 2 ^ 16 - 1}

InitPins ==
    /\ variant \in Variants
    /\ IF variant = "ucode"
       THEN U_MRO \in UndefinedSignal /\ U_PCI \in UndefinedSignal
       ELSE U_MRO = 0 /\ U_PCI = 0
    /\ pc = "start"
    /\ i = 0 /\ j = 0
    /\ address = 0
    /\ data = 0
    /\ sr \in LatchSamples
    /\ pins = NoPins
    /\ \E f \in InitialFill : mem = [a \in Watched(variant) |-> f]
    /\ pulses = 0
    /\ cpu = <<>> /\ boot = <<>>
    /\ io = PowerUp
    /\ at = Top
    /\ serial = <<>>

\* Serial.begin(9600); Serial.write("Programming")
Begin ==
    /\ pc = "start"
    /\ serial' = serial \o Programming
    /\ pc' = "setup"
    /\ at' = [Top EXCEPT !.k = 1]
    /\ UNCHANGED <<variant, U_MRO, U_PCI, i, j, address, data, sr, pins, mem, pulses>>
    /\ UNCHANGED <<cpu, boot, io>>

\* one digitalWrite or pinMode of the head of setup() or of dumpEeprom()
PinStatement ==
    /\ pc \in {"setup", "dumphead"}
    /\ LET sts == IF pc = "setup" THEN setup_head ELSE dump_head
           after == Execute(io, sts[at.k])
       IN  /\ io' = after
           /\ pins' = Lines(variant, after, pins, mem, sr)
           /\ IF at.k < Len(sts)
              THEN /\ at' = [at EXCEPT !.k = @ + 1]
                   /\ UNCHANGED <<pc, i>>
              ELSE /\ at' = Top
                   /\ pc' = IF pc = "setup" THEN "program" ELSE "dump"
                   /\ i' = IF pc = "setup" THEN 0 ELSE DumpBegin
    /\ UNCHANGED <<variant, U_MRO, U_PCI, j, address, data, sr, mem, pulses>>
    /\ UNCHANGED <<cpu, boot, serial>>

\* a loop of setup() or of dumpEeprom() is at the head of a pass
InLoop ==
    \/ pc = "program" /\ i < Pages(variant) /\ j < PageSize(variant)
    \/ pc = "fill" /\ i < FillEnd
    \/ pc = "dump" /\ i < DumpEnd(variant)

\* the address the pass presents
NextAddress ==
    IF pc = "program" THEN ToUInt(BitOr(Shl(i, PageShift(variant)), j)) ELSE i

\* a pass over an address that is not observed, taken whole
Skim ==
    /\ at.op = "top"
    /\ InLoop
    /\ ~IsWatched(variant, NextAddress)
    /\ \/ ProgramByte
       \/ FillByte
       \/ DumpByte

\* the call writeEepromAddress(address, SHIFT_DATA, SHIFT_CLOCK)
PresentAddress ==
    /\ at.op = "top"
    /\ InLoop
    /\ IsWatched(variant, NextAddress)
    /\ at' = [op |-> "shift", k |-> 0, arg |-> NextAddress]
    /\ address' = IF pc = "program" THEN NextAddress ELSE address
    /\ UNCHANGED <<variant, U_MRO, U_PCI, pc, i, j, data, sr, pins, mem, pulses>>
    /\ UNCHANGED <<cpu, boot, io, serial>>

\* the two shiftOut calls sending the low bit of each byte first
ShiftBit_lsbfirst(a, k) ==
    IF k < 8 THEN Bit(ToUChar(Shr(a, 8)), k) ELSE Bit(ToUChar(a), k - 8)

\* the k-th bit the two shiftOut calls send, MSBFIRST: bit 7 - k of
\* (uint8_t)(address >> 8), then bit 15 - k of (uint8_t)address
ShiftBit(a, k) ==
    IF k < 8 THEN Bit(ToUChar(Shr(a, 8)), 7 - k) ELSE Bit(ToUChar(a), 15 - k)

\* shiftOut: digitalWrite(dataPin, bit)
ShiftData ==
    /\ at.op = "shift"
    /\ io' = digitalWrite(io, SHIFT_DATA, ShiftBit(at.arg, at.k))
    /\ at' = [at EXCEPT !.op = "rise"]
    /\ UNCHANGED <<variant, U_MRO, U_PCI, pc, i, j, address, data, sr, pins, mem, pulses>>
    /\ UNCHANGED <<cpu, boot, serial>>

\* shiftOut: digitalWrite(clockPin, HIGH); the register takes the data line
ClockHigh ==
    /\ at.op = "rise"
    /\ io' = digitalWrite(io, SHIFT_CLOCK, 1)
    /\ sr' = ClockIn(sr, Level(io, SHIFT_DATA))
    /\ pins' = Lines(variant, io', pins, mem, sr')
    /\ at' = [at EXCEPT !.op = "fall"]
    /\ UNCHANGED <<variant, U_MRO, U_PCI, pc, i, j, address, data, mem, pulses>>
    /\ UNCHANGED <<cpu, boot, serial>>

\* AfterAddress without the delay and the encoder call
AfterAddress_nodelay(p) ==
    IF p \in {"program", "fill"} THEN "drive"
    ELSE IF p = "dump" THEN "read"
    ELSE "return"

\* what follows writeEepromAddress at its call site
AfterAddress(p) ==
    IF p \in {"program", "fill"} THEN "settle"
    ELSE IF p = "dump" THEN "read"
    ELSE "return"

\* shiftOut: digitalWrite(clockPin, LOW), and the next bit or the return
ClockLow ==
    /\ at.op = "fall"
    /\ io' = digitalWrite(io, SHIFT_CLOCK, 0)
    /\ at' = IF at.k + 1 < 16
             THEN [at EXCEPT !.op = "shift", !.k = @ + 1]
             ELSE [at EXCEPT !.op = AfterAddress(pc), !.k = @ + 1]
    /\ UNCHANGED <<variant, U_MRO, U_PCI, pc, i, j, address, data, sr, pins, mem, pulses>>
    /\ UNCHANGED <<cpu, boot, serial>>

\* delay(...), then data = getOutputByte(address) and the call of
\* writeEepromByte (the zero-fill loop passes 0)
Settle ==
    /\ at.op = "settle"
    /\ \E d \in (IF pc = "program" THEN getOutputByte(variant, address) ELSE {0}) :
          /\ data' = IF pc = "program" THEN d ELSE data
          /\ at' = [op |-> "drive", k |-> 0, arg |-> d]
    /\ UNCHANGED <<variant, U_MRO, U_PCI, pc, i, j, address, sr, pins, mem, pulses>>
    /\ UNCHANGED <<cpu, boot, io, serial>>

\* writeEepromByte: digitalWrite(i, data & 1), then ++i, data >>= 1
DrivePin ==
    /\ at.op = "drive"
    /\ LET after == digitalWrite(io, EEPROM_DATA_0 + at.k, at.arg % 2)
       IN  /\ io' = after
           /\ pins' = Lines(variant, after, pins, mem, sr)
    /\ at' = [op |-> IF at.k + 1 < 8 THEN "drive" ELSE "strobe",
              k |-> at.k + 1, arg |-> Shr(at.arg, 1)]
    /\ UNCHANGED <<variant, U_MRO, U_PCI, pc, i, j, address, data, sr, mem, pulses>>
    /\ UNCHANGED <<cpu, boot, serial>>

\* writeEepromByte: digitalWrite(enablePin, LOW)
WeLow ==
    /\ at.op = "strobe"
    /\ io' = digitalWrite(io, EEPROM_WE, 0)
    /\ pulses' = pulses + 1
    /\ at' = [at EXCEPT !.op = "release"]
    /\ UNCHANGED <<variant, U_MRO, U_PCI, pc, i, j, address, data, sr, pins, mem>>
    /\ UNCHANGED <<cpu, boot, serial>>

\* writeEepromByte: digitalWrite(enablePin, HIGH); the device stores the byte
WeHigh ==
    /\ at.op = "release"
    /\ io' = digitalWrite(io, EEPROM_WE, 1)
    /\ mem' = WritePulse(variant, mem, sr, pins)
    /\ at' = [at EXCEPT !.op = "next"]
    /\ UNCHANGED <<variant, U_MRO, U_PCI, pc, i, j, address, data, sr, pins, pulses>>
    /\ UNCHANGED <<cpu, boot, serial>>

\* the end of a pass of a programming loop: ++j, or the '.' of the zero-fill
\* loop and ++i
PassDone ==
    /\ at.op = "next"
    /\ IF pc = "program"
       THEN /\ j' = ToUInt(j + 1)
            /\ UNCHANGED <<i, serial>>
       ELSE /\ i' = ToUInt(i + 1)
            /\ serial' = IF (i + 1) % 512 = 0 THEN serial \o <<".">> ELSE serial
            /\ j' = j
    /\ at' = Top
    /\ UNCHANGED <<variant, U_MRO, U_PCI, pc, address, data, sr, pins, mem, pulses>>
    /\ UNCHANGED <<cpu, boot, io>>

\* dumpEeprom: the eight digitalRead calls, the three Serial.write calls, ++i
ReadByte ==
    /\ at.op = "read"
    /\ data' = ReadPins(variant, pins)
    /\ serial' = serial \o DumpText(ReadPins(variant, pins), i)
    /\ i' = ToUInt(i + 1)
    /\ at' = Top
    /\ UNCHANGED <<variant, U_MRO, U_PCI, pc, j, address, sr, pins, mem, pulses>>
    /\ UNCHANGED <<cpu, boot, io>>

\* delay(...); Serial.write("\nFinished\n"); the call of dumpEeprom
Finish ==
    /\ pc = "finished"
    /\ serial' = serial \o Finished
    /\ pc' = "dumphead"
    /\ at' = [Top EXCEPT !.k = 1]
    /\ UNCHANGED <<variant, U_MRO, U_PCI, i, j, address, data, sr, pins, mem, pulses>>
    /\ UNCHANGED <<cpu, boot, io>>

NextPins ==
    \/ Begin
    \/ PinStatement
    \/ Skim
    \/ PresentAddress
    \/ ShiftData
    \/ ClockHigh
    \/ ClockLow
    \/ Settle
    \/ DrivePin
    \/ WeLow
    \/ WeHigh
    \/ PassDone
    \/ PageDone
    \/ FillDone
    \/ Finish
    \/ ReadByte
    \/ DumpDone

SpecPins == InitPins /\ [][NextPins]_vars

\* the run of ucode.ino from reset, the sketch with both programming loops
InitRun ==
    /\ InitPins
    /\ variant = "ucode"
    /\ U_MRO = 2 ^ TopBit /\ U_PCI = 2 ^ TopBit

\* setup() is one sequential routine on one processor, with no interrupt
\* handler of its own and finite delays: a statement that can run does run
FairRun == InitRun /\ [][NextPins]_vars /\ WF_vars(NextPins)

----------------------------------------------------------------------------
(* writeEepromAddress applied to single addresses, on the write path (pins  *)
(* as setup() configures them) and on the dump path (as dumpEeprom() does)  *)

ShiftInputs ==
    {a \in 0..(2 ^ 16 - 1) : a < DenseWatch \/ a % SparseStep = 0 \/ a = 2 ^ 16 - 1}
    \cup {2 ^ k : k \in 0..15}

InitShift ==
    /\ variant \in Variants
    /\ IF variant = "ucode"
       THEN U_MRO \in UndefinedSignal /\ U_PCI \in UndefinedSignal
       ELSE U_MRO = 0 /\ U_PCI = 0
    /\ pc = "address"
    /\ i = 0 /\ j = 0
    /\ address = 0
    /\ data = 0
    /\ sr \in LatchSamples
    /\ mem = [a \in Watched(variant) |-> 0]
    /\ pulses = 0
    /\ cpu = <<>> /\ boot = <<>>
    /\ io \in {Run(PowerUp, setup_head), Run(Run(PowerUp, setup_head), dump_head)}
    /\ pins = Lines(variant, io, NoPins, mem, sr)
    /\ \E a \in ShiftInputs : at = [op |-> "shift", k |-> 0, arg |-> a]
    /\ serial = <<>>

NextShift ==
    \/ ShiftData
    \/ ClockHigh
    \/ ClockLow

SpecShift == InitShift /\ [][NextShift]_vars

----------------------------------------------------------------------------
(* Properties of the encoders, checked under SpecEnc                        *)

\* the state after getOutputByte has returned in the given sketch
Returned(v) == variant = v /\ pc = "return"

\* C3: control-store decode. For every address a in [0, 1536), with
\* bank = a >> 9, cycle = (a >> 6) & 7 and opcode = a & 63, the byte returned
\* is byte `bank` of isa[opcode][cycle]; for opcode 0, cycle 0, bank 0 it is
\* the low byte of U_FE0 = U_PHO|U_PLO|U_MRI, 0x0C.
C3_ControlStoreDecode ==
    (Returned("ucode") /\ address < 1536) =>
        LET bank == address \div 512
            cycle == (address \div 64) % 8
            opcode == address % 64
            word == isa[opcode + 1][cycle + 1]
        IN  /\ data = (word \div (256 ^ bank)) % 256
            /\ address = 0 => (data = 12 /\ data = (U_PHO + U_PLO + U_MRI) % 256)

\* C3 witness: a byte of bank 1 has been decoded (SUBc, cycle 4: U_SUB|U_ARI)
C3_Witness ==
    /\ Returned("ucode")
    /\ address = 512 + 4 * 64 + 4
    /\ data = 40

\* C4 helper: address a with bit k flipped
FlipBit(a, k) == IF Bit(a, k) = 1 THEN a - 2 ^ k ELSE a + 2 ^ k

\* C4: digit-display octal mode. For every address a < 0o40000, with
\* slot = (a >> 12) & 3 and value = a & 0o7777, the byte returned is
\* digits[(value >> (3*slot)) & 7]; flipping a value bit outside that slot's
\* 3-bit field does not change the byte; address 0o0005 gives digits[5] = 0x19.
C4_OctalMode ==
    (Returned("sevenseg") /\ address < 16384) =>
        LET slot == (address \div 4096) % 4
            value == address % 4096
        IN  /\ data = digits[((value \div (8 ^ slot)) % 8) + 1]
            /\ \A k \in 0..11 :
                   (k \div 3 # slot) => sevenseg_getOutputByte(FlipBit(address, k)) = data
            /\ address = 5 => data = 25

\* C4 witness: octal digit slot 2 of value 0o3567 has been encoded (digit 5)
C4_Witness ==
    /\ Returned("sevenseg")
    /\ address = 2 * 4096 + 1911
    /\ data = 25

\* the byte that shows digit slot `slot` of the signed value v: no leading
\* zeros, the sign mark 0x08 on slot 0 only
Render(v, slot) ==
    LET m == IF v < 0 THEN -v ELSE v
        d == digits[((m \div (10 ^ slot)) % 10) + 1]
        marked == IF (d \div 8) % 2 = 1 THEN d - 8 ELSE d + 8
    IN  IF slot = 0 THEN (IF v < 0 THEN marked ELSE d)
        ELSE IF m >= 10 ^ slot THEN d
        ELSE 255

\* signed-decimal mode: the addresses 0o40000 .. 0o77777
DecimalMode == Returned("sevenseg") /\ address \in 16384..32767

\* C5: digit-display signed-decimal mode. With v the signed value the encoder
\* derives from the address, m = |v| and slot = (a >> 12) & 3: slot 0 yields
\* digits[m % 10], XOR 0x08 when v < 0 (value 0 shows digit 0); slot k in 1..3
\* yields digits[(m / 10^k) % 10] when m >= 10^k and 0xFF otherwise. v = 7
\* gives digits[7], 0xFF, 0xFF, 0xFF; v = -5 gives digits[5] XOR 0x08 at slot 0
\* and the higher slots of v = 5.
C5_SignedDecimalMode ==
    DecimalMode =>
        LET v == ToInt(SignExtend(address))
            slot == (address \div 4096) % 4
        IN  /\ data = Render(v, slot)
            /\ v = 0 /\ slot = 0 => data = 136
            /\ v = 7 => data = (IF slot = 0 THEN 203 ELSE 255)
            /\ v = -5 => data = (IF slot = 0 THEN 17 ELSE 255)
            /\ v = -5 /\ slot > 0 => data = Render(5, slot)

\* C5 witness: slot 0 of the value -5 has been encoded, with the sign mark
C5_Witness ==
    /\ DecimalMode
    /\ address = 16384 + 4091
    /\ ToInt(SignExtend(address)) = -5
    /\ data = 17

\* the low n bits of a as an n-bit two's-complement number
TwosComplement(a, n) ==
    LET low == a % (2 ^ n)
    IN  IF low >= 2 ^ (n - 1) THEN low - 2 ^ n ELSE low

\* C6 as claimed: in signed-decimal mode the value displayed is the low 15 bits
\* of the address read as a 15-bit two's-complement number (bit 14 the sign).
C6_Original ==
    DecimalMode =>
        data = Render(TwosComplement(address, 15), (address \div 4096) % 4)

\* C6 as amended: in signed-decimal mode the value displayed is the low 12 bits
\* of the address read as a 12-bit two's-complement number: bit 11 is the
\* sign, bits 12..13 select the digit slot and bit 14 only selects the mode.
C6_Value12Bit ==
    DecimalMode =>
        /\ ToInt(SignExtend(address)) = TwosComplement(address, 12)
        /\ data = Render(TwosComplement(address, 12), (address \div 4096) % 4)

\* C6 witness: slot 3 of the most negative value, -2048, has been encoded
C6_Witness ==
    /\ DecimalMode
    /\ address = 16384 + 3 * 4096 + 2048
    /\ data = digits[3]

\* C7: both encoders are total over the 16-bit address domain: every index into
\* digits[16] and isa[64][8] is inside the table, every shift amount is smaller
\* than the width of the shifted operand (control >> (bank << 3), also at
\* address 2048), and the digit-display encoder returns 0xFF above 0x7FFF.
C7_EncodersTotal ==
    pc = "return" =>
        /\ variant = "sevenseg" =>
               /\ sevenseg_IndexOK(address)
               /\ address > 32767 => sevenseg_getOutputByte(address) = 255
        /\ variant = "ucode" =>
               /\ ucode_IndexOK(address)
               /\ ucode_ShiftOK(address)

LastWord(row) ==
    LET n == CHOOSE c \in 1..8 : row[c] # 0 /\ \A e \in (c + 1)..8 : row[e] = 0
    IN  row[n]

\* C9 as claimed: the last non-zero control word of every one of the 64
\* sequences is U_END.
C9_Original ==
    Returned("ucode") => LastWord(isa[(address % 64) + 1]) = U_END

\* C9 as amended: the last non-zero word of a sequence is U_END, except for
\* the four HLT sequences (0o74..0o77), which end in U_HLT, and for JMSa (0o57)
\* and SWPa (0o67), which fill all 8 cycles and hold no U_END.
C9_EndMarker ==
    Returned("ucode") =>
        LET op == address % 64
            row == isa[op + 1]
        IN  IF op \in 60..63 THEN LastWord(row) = U_HLT
            ELSE IF op \in {47, 55}
                 THEN \A c \in 1..8 : row[c] # 0 /\ row[c] # U_END
            ELSE LastWord(row) = U_END

\* C9 witness: the last byte of SWPa has been decoded (cycle 7, bank 1 of U_SUO|U_ARI)
C9_Witness ==
    /\ Returned("ucode")
    /\ address = 512 + 7 * 64 + 55
    /\ data = 32

\* C10: for every opcode the defined sequence is a contiguous prefix of 3 to 8
\* non-zero control words, every later cycle holds the zero word, and the
\* encoder returns 0 for such a cycle in every bank.
C10_ZeroBeyondSequence ==
    (Returned("ucode") /\ address < 2048) =>
        LET row == isa[(address % 64) + 1]
            cycle == (address \div 64) % 8
            n == Cardinality({c \in 1..8 : row[c] # 0})
        IN  /\ n \in 3..8
            /\ \A c \in 1..8 : (row[c] # 0) <=> (c <= n)
            /\ cycle >= n => data = 0

\* C10 witness: cycle 3 of NOPi (three words long) has been decoded in bank 2
C10_Witness ==
    /\ Returned("ucode")
    /\ address = 2 * 512 + 3 * 64 + 50
    /\ isa[51][3] = U_END /\ isa[51][4] = 0
    /\ data = 0

\* C11: every one of the 64 sequences begins with the same two-step fetch,
\* isa[opcode][0] = U_FE0 = U_PHO|U_PLO|U_MRI and isa[opcode][1] = U_FE1 =
\* U_MEO|U_IRI|U_PCE, so at cycle 0 and cycle 1 the byte returned by
\* getOutputByte is the same for every opcode in the address.
C11_CommonFetch ==
    (Returned("ucode") /\ address < 2048) =>
        LET bank == address \div 512
            cycle == (address \div 64) % 8
            opcode == address % 64
        IN  /\ U_FE0 = U_PHO + U_PLO + U_MRI
            /\ U_FE1 = U_MEO + U_IRI + U_PCE
            /\ isa[opcode + 1][1] = U_FE0
            /\ isa[opcode + 1][2] = U_FE1
            /\ cycle = 0 => data = (U_FE0 \div (256 ^ bank)) % 256
            /\ cycle = 1 => data = (U_FE1 \div (256 ^ bank)) % 256
            /\ cycle \in {0, 1} =>
                   \A other \in 0..63 :
                       ucode_getOutputByte(address - opcode + other) = {data}

\* C11 witness: cycle 1 of HLTa has been decoded in bank 2 (U_PCE|U_IRI)
C11_Witness ==
    /\ Returned("ucode")
    /\ address = 2 * 512 + 1 * 64 + 63
    /\ data = 24

\* C12: the reserved operation is NOP. For each addressing mode m the row
\* isa[0o70 + m] equals isa[0o60 + m] word for word, and getOutputByte returns
\* the same byte for both opcodes at every cycle and bank.
C12_ReservedIsNop ==
    (Returned("ucode") /\ address < 2048) =>
        LET opcode == address % 64
        IN  /\ opcode \in 56..59 =>
                /\ isa[opcode + 1] = isa[opcode - 8 + 1]
                /\ ucode_getOutputByte(address - 8) = {data}
            /\ opcode \in 48..51 =>
                /\ isa[opcode + 1] = isa[opcode + 8 + 1]
                /\ ucode_getOutputByte(address + 8) = {data}

\* C12 witness: the end marker of the reserved immediate row has been decoded
\* (opcode 0o72, cycle 2, bank 2)
C12_Witness ==
    /\ Returned("ucode")
    /\ address = 2 * 512 + 2 * 64 + 58
    /\ data = 128

----------------------------------------------------------------------------
(* Properties of the instruction sequences, checked under SpecCpu           *)

\* the instruction word the run began with, and its fields
Instruction(b) == b.ram[b.PC]
Opcode(b) == Instruction(b) \div (2 ^ ArgBits)
ModeField(b) == Opcode(b) % 4
Argument(b) == LOW(Instruction(b))
\* the instruction with the given number has run to its last step
Ran(operation) == pc = "complete" /\ Opcode(boot) \div 4 = operation

\* the operand README.md gives for a non-jump instruction: Mem[HIGH(PC)|argument],
\* Mem[argument], argument, and for the accumulator mode Mem[A + argument]
Operand(b) ==
    CASE ModeField(b) = 0 -> b.ram[HIGH(b.PC) + Argument(b)]
      [] ModeField(b) = 1 -> b.ram[Argument(b)]
      [] ModeField(b) = 2 -> Argument(b)
      [] ModeField(b) = 3 -> b.ram[Word(b.A + Argument(b))]

\* C15: SUB subtracts the operand from the accumulator in every addressing
\* mode: after the sequence of SUBc, SUBz, SUBi or SUBa has run from the fetch
\* to its last step, A = (A_before - operand) mod 2^12.
C15_SubSubtracts ==
    Ran(1) => cpu.A = Word(boot.A - Operand(boot) + 2 ^ WordBits)

\* C16: LDA loads the operand into the accumulator in every addressing mode:
\* the sequence holds a step in which the operand source (U_MEO, or U_IRO for
\* the immediate mode) drives the bus while U_ARI latches it, and it ends with
\* A = operand.
C16_LdaLoads ==
    Ran(5) =>
        /\ \E c \in 3..8 :
              LET w == isa[Opcode(boot) + 1][c]
              IN  /\ Asserts(w, U_ARI)
                  /\ Asserts(w, IF ModeField(boot) = 2 THEN U_IRO ELSE U_MEO)
        /\ cpu.A = Operand(boot)

\* the jump target README.md gives for the mode field of a jump instruction
JumpTarget(b) ==
    CASE ModeField(b) = 0 -> HIGH(Word(b.PC + 1)) + Argument(b)
      [] ModeField(b) = 1 -> b.ram[HIGH(Word(b.PC + 1)) + Argument(b)]
      [] ModeField(b) = 2 -> b.ram[Argument(b)]
      [] ModeField(b) = 3 -> Word(b.A + Argument(b))

\* C17: for jump instructions the mode field selects 0 direct
\* (PC <- HIGH(PC)|argument), 1 indirect current page
\* (PC <- Mem[HIGH(PC)|argument]), 2 indirect zero page (PC <- Mem[argument]),
\* 3 accumulator (PC <- A + argument): the JMP sequence at opcode 0o40 + mode
\* loads PC with that value.
C17_JumpModes ==
    Ran(8) => cpu.PC = JumpTarget(boot)

----------------------------------------------------------------------------
(* Properties of the programming sweep and the dump, checked under Spec     *)

\* the byte the encoder yields for address a, as the set of its outcomes
Encoded(a) == getOutputByte(variant, a)

\* C1: round trip, both sketches. With the ideal device, every byte that
\* dumpEeprom assembles for an address a of [begin, end) equals
\* getOutputByte(a); the read bit assembly (pin EEPROM_DATA_0+k -> bit k) is
\* the exact inverse of the write order of writeEepromByte.
C1_RoundTrip ==
    /\ (pc = "program" /\ pulses > 0) =>
           /\ BusByte(pins, 0) = data
           /\ ReadPins(variant, pins) = data
    /\ (pc \in {"dump", "done"} /\ i > DumpBegin) =>
           /\ sr = i - 1
           /\ sr \in DumpBegin..(DumpEnd(variant) - 1)
           /\ IsWatched(variant, sr) =>
                  /\ ReadPins(variant, pins) = mem[sr]
                  /\ Encoded(sr) = {data}

\* C1 witness: the dump of the control store has assembled the byte of
\* address 4 (SUBc, cycle 0, bank 0: the low byte of U_FE0)
C1_Witness ==
    /\ variant = "ucode"
    /\ pc = "dump"
    /\ sr = 4
    /\ i = 5
    /\ data = 12

\* the contents the sweep is to leave in cell a
Image(a) ==
    IF variant = "ucode" /\ a >= 2048 THEN {0} ELSE Encoded(a)

\* C2: device image after the programming sweep, for any initial contents.
\* Control store: every address of [0, 8192) has received exactly one write
\* pulse (the pulses go to 0, 1, 2, ... in turn), [0, 2048) holds
\* getOutputByte(a), [2048, 8192) holds 0 and the driver never evaluates the
\* encoder at an address >= 2048. Digit display: every address of [0, 32768)
\* has received exactly one write pulse and holds getOutputByte(a).
C2_DeviceImage ==
    /\ (pc \in {"program", "fill"} /\ pulses > 0) =>
           /\ sr = pulses - 1
           /\ IsWatched(variant, sr) => Image(sr) = {mem[sr]}
    /\ pulses <= SweepEnd(variant)
    /\ variant = "ucode" => address < 2048
    /\ pc = "finished" =>
           /\ pulses = SweepEnd(variant)
           /\ SweepEnd(variant) = (IF variant = "ucode" THEN 8192 ELSE 32768)
           /\ \A a \in DOMAIN mem : Image(a) = {mem[a]}
    /\ pc \in {"dump", "done"} => pulses = SweepEnd(variant)

\* C2 witness: the control-store sweep has finished; the last cell of the
\* table holds its encoding and the first and last filled cells hold 0
C2_Witness ==
    /\ variant = "ucode"
    /\ pc = "finished"
    /\ pulses = 8192
    /\ mem[0] = 12
    /\ mem[2048] = 0
    /\ mem[8191] = 0

\* the text before the dump, written out: page dots by sketch
StatusDots == IF variant = "sevenseg" THEN 8 ELSE 16
StatusPage == IF variant = "sevenseg" THEN 4096 ELSE 512
StatusHead == <<"P", "r", "o", "g", "r", "a", "m", "m", "i", "n", "g">>
StatusText ==
    StatusHead \o [k \in 1..StatusDots |-> "."]
               \o <<"\n", "F", "i", "n", "i", "s", "h", "e", "d", "\n">>
LowerHex ==
    <<"0", "1", "2", "3", "4", "5", "6", "7", "8", "9", "a", "b", "c", "d", "e", "f">>

\* the output so far is a prefix of the text C13 describes
SerialSoFar ==
    LET n == Len(serial) - Len(StatusHead)
    IN  /\ pc \in {"program", "fill", "finished"} =>
               /\ n \in 0..StatusDots
               /\ serial = StatusHead \o [k \in 1..n |-> "."]
               /\ n * StatusPage <= pulses
               /\ pulses <= (n + 1) * StatusPage
               /\ pc = "finished" => n = StatusDots
        /\ pc \in {"dump", "done"} =>
               /\ Len(serial) = Len(StatusText) + 3 * (i - DumpBegin)
               /\ SubSeq(serial, 1, Len(StatusText)) = StatusText
               /\ pc = "done" => i = DumpEnd(variant)
               /\ i > DumpBegin =>
                      LET a == i - 1
                          entry == SubSeq(serial, Len(serial) - 2, Len(serial))
                      IN  /\ entry[3] = IF (a + 1) % 16 = 0 THEN "\n" ELSE " "
                          /\ IsWatched(variant, a) =>
                                 /\ entry[1] = LowerHex[(mem[a] \div 16) + 1]
                                 /\ entry[2] = LowerHex[(mem[a] % 16) + 1]

\* a step only appends to the output: "\nFinished\n" at most
SerialAppends ==
    /\ Len(serial') >= Len(serial)
    /\ SubSeq(serial', 1, Len(serial)) = serial
    /\ Len(serial') <= Len(serial) + Len(StatusText) - Len(StatusHead) - StatusDots

\* C13: the serial output of one run is exactly "Programming", then one '.'
\* per completed page (8 for the digit display, 16 for the control store, each
\* only after the last write pulse of its page), then "\nFinished\n", then
\* the dump: each address of [begin, end) in ascending order gives two
\* lowercase hex digits, high nibble first, followed by '\n' when
\* (address + 1) mod 16 = 0 and by one space otherwise. No dump character
\* comes before "\nFinished\n".
C13_SerialOutput == []SerialSoFar /\ [][SerialAppends]_vars

\* C13 witness: the dump of the control store has finished its first line,
\* "... 0c\n" for address 15 (SHLa, cycle 0, bank 0)
C13_Witness ==
    /\ variant = "ucode"
    /\ pc = "dump"
    /\ i = 16
    /\ Len(serial) = 11 + 16 + 10 + 48
    /\ SubSeq(serial, Len(serial) - 2, Len(serial)) = <<"0", "c", "\n">>
    /\ SubSeq(serial, 12, 37) =
           [k \in 1..16 |-> "."] \o <<"\n", "F", "i", "n", "i", "s", "h", "e", "d", "\n">>

----------------------------------------------------------------------------
(* Properties of the pin events, checked under SpecPins and SpecShift       *)

\* WE is driven low
WeIsLow == io[EEPROM_WE].mode = "OUTPUT" /\ io[EEPROM_WE].port = 0

\* the number of write pulses that have ended
Stored == IF WeIsLow THEN pulses - 1 ELSE pulses

\* C14: partial sweeps do not corrupt unrelated addresses. In every reachable
\* state of the programming sweep each write pulse has changed only the byte
\* at the address presented for that step; every address already swept holds
\* its final value and every address not yet reached still holds its initial
\* content.
C14_PartialSweep ==
    /\ [](\E f \in InitialFill :
             \A a \in DOMAIN mem :
                 IF a < Stored THEN Image(a) = {mem[a]} ELSE mem[a] = f)
    /\ [][\A a \in DOMAIN mem :
              mem'[a] # mem[a] =>
                  /\ a = sr /\ sr' = sr
                  /\ a = pulses' - 1
                  /\ pc \in {"program", "fill"}]_vars

\* C14 witness: the control-store sweep stopped inside its third write pulse,
\* on a device that held 0xFF: cells 0 and 1 are written, cell 2 and the last
\* cell are not
C14_Witness ==
    /\ variant = "ucode"
    /\ pc = "program"
    /\ WeIsLow
    /\ sr = 2
    /\ pulses = 3
    /\ mem[0] = 12 /\ mem[1] = 12
    /\ mem[2] = 255 /\ mem[8191] = 255

\* C18: programming visits the addresses in strictly ascending order and for
\* each one the pin events come in the order: 16 address bits shifted, settle
\* delay, 8 data pins driven, WE low, WE high. At every falling edge of WE the
\* shift register holds the whole current address and pin EEPROM_DATA_0 + k
\* carries bit k of the byte for that address; no address bit is shifted and
\* no data pin changes while WE is low.
C18_WritePulseOrder ==
    /\ [](/\ WeIsLow =>
               /\ at.op = "release"
               /\ pc \in {"program", "fill"}
               /\ sr = pulses - 1
               /\ sr = NextAddress
               /\ \E byte \in Image(sr) :
                      \A k \in 0..7 :
                          /\ pins[k] = (byte \div (2 ^ k)) % 2
                          /\ io[EEPROM_DATA_0 + k] = [mode |-> "OUTPUT", port |-> pins[k]]
          /\ (pc \in {"program", "fill"} /\ at.op = "top" /\ pulses > 0) => sr = pulses - 1)
    /\ [][/\ WeIsLow => (sr' = sr /\ pins' = pins /\ pulses' = pulses
                          /\ \A n \in DOMAIN io : n # EEPROM_WE => io'[n] = io[n])
          /\ pulses' \in {pulses, pulses + 1}
          /\ (pulses' = pulses + 1) => sr' = pulses
          /\ at.op = "strobe" => (WeIsLow' /\ sr' = sr /\ pins' = pins)
          /\ (at'.op = "settle" /\ at.op # "settle") => (at.op = "fall" /\ at'.k = 16 /\ sr = at.arg)
          /\ (at'.op = "drive" /\ at.op # "drive") => at.op = "settle"
          /\ (at'.op = "strobe" /\ at.op # "strobe") => (at.op = "drive" /\ at'.k = 8)
          /\ (at'.op = "release" /\ at.op # "release") => at.op = "strobe"
          /\ (at.op = "release" /\ at'.op # "release") => ~WeIsLow']_vars

\* C18 witness: WE is low for address 5 of the digit display (octal digit 5,
\* 0x19) with the byte on the data pins
C18_Witness ==
    /\ variant = "sevenseg"
    /\ pc = "program"
    /\ WeIsLow
    /\ at.op = "release"
    /\ sr = 5
    /\ data = 25
    /\ pins = [k \in 0..7 |-> (25 \div (2 ^ k)) % 2]

\* C19: writeEepromAddress(a) issues exactly 16 clock pulses, bit 15 of a
\* first and bit 0 last, the data line set before each rising clock edge; for
\* every a in [0, 65536) the 16-bit shift register holds exactly a afterwards,
\* whatever it held before, on the write path and on the dump path.
C19_AddressPresentation ==
    /\ [](/\ at.op = "return" => (at.k = 16 /\ sr = at.arg)
          /\ at.op \in {"shift", "rise", "fall", "return"} =>
               /\ at.arg \in 0..(2 ^ 16 - 1)
               /\ LET sent == IF at.op = "fall" THEN at.k + 1 ELSE at.k
                  IN  sr % (2 ^ sent) = at.arg \div (2 ^ (16 - sent))
          /\ at.op = "rise" =>
               Level(io, SHIFT_DATA) = (at.arg \div (2 ^ (15 - at.k))) % 2)
    /\ [][/\ (io'[SHIFT_CLOCK].port = 1 /\ io[SHIFT_CLOCK].port = 0) =>
                 /\ at.op = "rise"
                 /\ io'[SHIFT_DATA] = io[SHIFT_DATA]
                 /\ sr' = (2 * sr + ((at.arg \div (2 ^ (15 - at.k))) % 2)) % (2 ^ 16)
          /\ sr' # sr => (io'[SHIFT_CLOCK].port = 1 /\ io[SHIFT_CLOCK].port = 0)
          /\ at'.k \in {at.k, at.k + 1}
          /\ at'.k = at.k + 1 => (io[SHIFT_CLOCK].port = 1 /\ io'[SHIFT_CLOCK].port = 0)]_vars

\* C19 witness: address 0x8000 has been presented on the dump path
C19_Witness ==
    /\ pc = "address"
    /\ at.op = "return"
    /\ at.arg = 32768
    /\ sr = 32768
    /\ Level(io, EEPROM_OE) = 0

\* all 8 data pins are inputs
PinsReleased == \A k \in 0..7 : io[EEPROM_DATA_0 + k].mode = "INPUT"

\* C20: programming is write-only and verification is read-only. OE is low
\* only while all 8 data pins are inputs, so the microcontroller and the device
\* never drive the data bus together; OE stays high during the whole
\* programming sweep, no data pin is read before the sweep has finished, and
\* WE is never driven low once the dump has begun.
C20_WriteOnlyThenReadOnly ==
    /\ [](/\ Level(io, EEPROM_OE) = 0 => PinsReleased
          /\ pc \in {"program", "fill", "finished"} =>
               /\ io[EEPROM_OE] = [mode |-> "OUTPUT", port |-> 1]
               /\ \A k \in 0..7 : io[EEPROM_DATA_0 + k].mode = "OUTPUT"
          /\ pc \in {"dumphead", "dump", "done"} =>
               /\ ~WeIsLow
               /\ pulses = SweepEnd(variant)
          /\ pc \in {"dump", "done"} =>
               /\ Level(io, EEPROM_OE) = 0
               /\ Level(io, EEPROM_WE) = 1)
    /\ [][/\ (ReadByte \/ DumpByte) =>
                 /\ pulses = SweepEnd(variant)
                 /\ Level(io, EEPROM_OE) = 0
                 /\ PinsReleased
          /\ (pc \notin {"dump", "done"} /\ pc' \notin {"dump", "done"}) =>
                 (data' = data \/ (pc = "program" /\ data' \in Encoded(address')))
          /\ pc \in {"dumphead", "dump", "done"} =>
                 (mem' = mem /\ pulses' = pulses /\ ~WeIsLow')]_vars

\* C20 witness: the dump of the control store has read its first byte through
\* data pins that are inputs, with OE low
C20_Witness ==
    /\ variant = "ucode"
    /\ pc = "dump"
    /\ at.op = "top"
    /\ i = 1
    /\ data = 12
    /\ Level(io, EEPROM_OE) = 0
    /\ PinsReleased

----------------------------------------------------------------------------
(* The shape of the sequences by addressing mode, checked under SpecEnc     *)

\* byte `bank` of a control word, as the encoder extracts it
ByteOf(word, a) == (word \div (256 ^ (a \div 512))) % 256

\* C22 as claimed: in every one of the 64 sequences (opcode = 4*instruction +
\* mode) the word at cycle 2 is U_CUP in mode 0 and U_ZEP in mode 1, mode 3
\* has U_AC0 at cycle 2 and U_AC1 at cycle 3, and in mode 2 no word after the
\* fetch asserts U_MRI.
C22_Original ==
    (Returned("ucode") /\ address < 2048) =>
        LET opcode == address % 64
            mode == opcode % 4
            row == isa[opcode + 1]
        IN  /\ mode = 0 => row[3] = U_CUP
            /\ mode = 1 => row[3] = U_ZEP
            /\ mode = 3 => (row[3] = U_AC0 /\ row[4] = U_AC1)
            /\ mode = 2 => \A c \in 3..8 : ~Asserts(row[c], U_MRI)

\* C22 as amended: the shape holds for the 15 operations below HLT. There the
\* word at cycle 2 is U_CUP in mode 0 and U_ZEP in mode 1, mode 3 has U_AC0 at
\* cycle 2 and U_AC1 at cycle 3, and the encoder returns the bytes of these
\* words; in mode 2 no word after the fetch asserts U_MRI, except in STAi
\* (0o32) and JMSi (0o56), whose word at cycle 2 is the current-page word
\* U_CUP. The four HLT sequences (0o74..0o77) hold U_HLT at cycle 2 in every
\* mode and resolve no address.
C22_AddressingShape ==
    (Returned("ucode") /\ address < 2048) =>
        LET opcode == address % 64
            mode == opcode % 4
            cycle == (address \div 64) % 8
            row == isa[opcode + 1]
        IN  /\ opcode < 60 =>
                /\ mode = 0 => row[3] = U_CUP
                /\ mode = 1 => row[3] = U_ZEP
                /\ mode = 3 => (row[3] = U_AC0 /\ row[4] = U_AC1)
                /\ (mode = 0 /\ cycle = 2) => data = ByteOf(U_CUP, address)
                /\ (mode = 1 /\ cycle = 2) => data = ByteOf(U_ZEP, address)
                /\ (mode = 3 /\ cycle = 2) => data = ByteOf(U_AC0, address)
                /\ (mode = 3 /\ cycle = 3) => data = ByteOf(U_AC1, address)
            /\ (mode = 2 /\ opcode \notin {26, 46}) =>
                   \A c \in 3..8 : ~Asserts(row[c], U_MRI)
            /\ opcode \in {26, 46} => row[3] = U_CUP
            /\ opcode >= 60 =>
                   (row[3] = U_HLT /\ \A c \in 3..8 : ~Asserts(row[c], U_MRI))

\* C22 witness: cycle 3 of ADDa has been decoded in bank 1 (U_MRI of U_AC1)
C22_Witness ==
    /\ Returned("ucode")
    /\ address = 512 + 3 * 64 + 3
    /\ isa[4][4] = U_AC1
    /\ data = 1

\* the execute steps of a row from the given cycle on: the words up to and
\* including the first U_END, or up to the first zero word where the row
\* holds no U_END
ExecuteSteps(row, cycle) ==
    LET stops == {k \in (cycle + 1)..8 : row[k] = U_END \/ row[k] = 0}
        stop == IF stops = {} THEN 9
                ELSE CHOOSE k \in stops : \A e \in stops : k <= e
        last == IF stop <= 8 /\ row[stop] = U_END THEN stop ELSE stop - 1
    IN  [k \in 1..(last - cycle) |-> row[cycle + k]]

\* C23: common execute steps. For the instruction the address selects, the
\* execute steps of the current-page sequence from cycle 3 on, up to and
\* including the end marker, are those of the zero-page sequence from cycle 3
\* on and those of the accumulator sequence from cycle 4 on.
C23_CommonExecute ==
    (Returned("ucode") /\ address < 2048) =>
        LET opcode == address % 64
            base == opcode - (opcode % 4)
            current == ExecuteSteps(isa[base + 1], 3)
        IN  /\ ExecuteSteps(isa[base + 2], 3) = current
            /\ ExecuteSteps(isa[base + 4], 4) = current

----------------------------------------------------------------------------
(* The sign segment of the digit display, checked under SpecEnc             *)

\* C24: the sign mark is unambiguous. Every entry of digits and the blank
\* pattern have bit 0x08 set, so the byte returned by the digit-display
\* getOutputByte has bit 0x08 clear exactly when the address is in
\* signed-decimal mode, the digit slot is 0 and the derived value is negative
\* (bit 11 of the address set: the addresses 0x4800..0x4FFF).
C24_SignMark ==
    /\ \A k \in 0..15 : Bit(DigitAt(k), 3) = 1
    /\ Bit(off, 3) = 1
    /\ Returned("sevenseg") =>
           LET slot == (address \div 4096) % 4
               v == ToInt(SignExtend(address))
               marked == address \in 16384..32767 /\ slot = 0 /\ v < 0
           IN  /\ (Bit(data, 3) = 0) <=> marked
               /\ marked <=> address \in 18432..20479

\* C24 witness: slot 0 of the value -2048 has been encoded: digits[8] with the
\* sign segment lit is the byte 0x00
C24_Witness ==
    /\ Returned("sevenseg")
    /\ address = 16384 + 2048
    /\ ToInt(SignExtend(address)) = -2048
    /\ data = 0

----------------------------------------------------------------------------
(* The bus drivers of a control word, checked under SpecEnc                 *)

\* the signals of a set that a control word asserts
Asserted(w, signals) == {signal \in signals : Asserts(w, signal)}

\* two drivers of the same bus lines at once, or RAM read and written at
\* once: U_ARO, U_SUO and U_MEO drive the whole bus, U_PHO its high half,
\* U_PLO and U_IRO its low half
Contention(w) ==
    LET full == Asserted(w, {U_ARO, U_SUO, U_MEO})
        half == Asserted(w, {U_PHO, U_PLO, U_IRO})
    IN  \/ Cardinality(full) > 1
        \/ full # {} /\ half # {}
        \/ {U_PLO, U_IRO} \subseteq half
        \/ Asserts(w, U_MEO) /\ Asserts(w, U_MEI)

\* C25: no control word of isa creates bus contention: none asserts two of
\* U_ARO, U_SUO, U_MEO together, none a full-width driver together with
\* U_PHO, U_PLO or U_IRO, none U_PLO together with U_IRO, and none U_MEO
\* together with U_MEI. The byte of bank 0 that the encoder returns, which
\* holds the five register drivers, shows no contention either.
C25_NoBusContention ==
    (Returned("ucode") /\ address < 2048) =>
        LET opcode == address % 64
            cycle == (address \div 64) % 8
            row == isa[opcode + 1]
        IN  /\ \A c \in 1..8 : ~Contention(row[c])
            /\ address < 512 =>
                   /\ data = row[cycle + 1] % 256
                   /\ ~Contention(data)

\* C25 witness: cycle 2 of JMPi has been decoded in bank 0, a word with two
\* drivers, U_PHO on the high half of the bus and U_IRO on the low half
C25_Witness ==
    /\ Returned("ucode")
    /\ address = 2 * 64 + 34
    /\ Asserted(isa[35][3], {U_PHO, U_PLO, U_IRO}) = {U_PHO, U_IRO}
    /\ data = 20

----------------------------------------------------------------------------
(* The run as a whole, checked under FairRun                                *)

\* the phase of the driver: 0 idle (reset and pin configuration), 1
\* programming (the loops of setup()), 2 verifying (dumpEeprom), 3 terminal
\* (setup() has returned and loop() is empty)
Phase(p) ==
    IF p \in {"start", "setup"} THEN 0
    ELSE IF p \in {"program", "fill", "finished"} THEN 1
    ELSE IF p \in {"dumphead", "dump"} THEN 2
    ELSE 3

\* the loop limits of both sketches and the addresses (i << shift) | j fit
\* unsigned int and unsigned short, so no counter wraps before its limit
CountersFit ==
    \A v \in Variants :
        /\ Pages(v) < 2 ^ IntBits
        /\ PageSize(v) < 2 ^ IntBits
        /\ DumpEnd(v) < 2 ^ IntBits
        /\ FillEnd < 2 ^ IntBits
        /\ Shl(Pages(v), PageShift(v)) <= 2 ^ IntBits
        /\ PageSize(v) = 2 ^ PageShift(v)

\* what each phase has done so far
OneShotState ==
    /\ CountersFit
    /\ i \in 0..(2 ^ IntBits - 1)
    /\ j \in 0..(2 ^ IntBits - 1)
    /\ Phase(pc) = 0 => pulses = 0
    /\ Phase(pc) = 1 => pulses <= SweepEnd(variant)
    /\ Phase(pc) >= 2 => pulses = SweepEnd(variant)
    /\ pc = "dump" => i <= DumpEnd(variant)
    /\ pc = "done" =>
           /\ i = DumpEnd(variant)
           /\ sr = DumpEnd(variant) - 1
           /\ at = Top

\* what a step may do: stay in its phase or enter the next one, write the
\* address that follows the last one written, dump the address that follows
\* the last one dumped, and nothing at all in the terminal state
OneShotStep ==
    /\ pc # "done"
    /\ Phase(pc') \in {Phase(pc), Phase(pc) + 1}
    /\ pulses' \in {pulses, pulses + 1}
    /\ pulses' = pulses + 1 => (Phase(pc) = 1 /\ sr' = pulses)
    /\ (pc = "dump" /\ i' # i) => (i' = i + 1 /\ sr' = i)
    /\ Phase(pc) # 1 => mem' = mem

====
